---- MODULE Spec2Model ----
(***************************************************************************)
(* Order-processing pipeline of dk-go-gophermart: the ledger store         *)
(* (orders, withdrawals, balance), the request-side processor, the         *)
(* broker's worker pool polling the accrual service, the persister that    *)
(* applies completions, and the startup recovery goroutine.                *)
(*                                                                         *)
(* Amounts are whole points (the code's float64 / NUMERIC(10,2) without    *)
(* the fraction).  Time is kept relative: every queue entry carries        *)
(* time.Since(LastChecked) instead of LastChecked, saturated at Horizon,   *)
(* beyond which no comparison of the code changes its answer.              *)
(***************************************************************************)
EXTENDS Integers, FiniteSets, Sequences, TLC

\* ------------------------------------------------------------------ bounds
Users == {"u1", "u2"}
\* order numbers a client may submit: 18, 26 and 34 pass the Luhn check, 17 fails it
OrderNumbers == {17, 18, 26, 34}
\* workerNumber + 1 goroutines of the broker
NumWorkers == 2
\* cfg.QueueConfig.RetryNumber
RetryNumber == 2
\* seconds that pass in one Tick
TickStep == 5
\* the non-zero Retry-After the accrual service may answer with
RetrySeconds == 15
\* largest accrual of a PROCESSED answer, largest sum of a withdrawal request
MaxAccrual == 1
MaxAmount == 1
\* withdrawal requests between their funds check and their transaction
MaxInFlight == 2
\* process lifetimes after the first one
MaxRestarts == 1
\* RetryCount is explored up to this value (unparseable bodies raise it unboundedly)
MaxRetryCount == 3

\* ------------------------------------------------------- program constants
\* the minimum spacing of two polls of one entry, in seconds
MinSpacing == 10

Workers == 1..NumWorkers
Max(a, b) == IF a > b THEN a ELSE b
Min(a, b) == IF a < b THEN a ELSE b
\* every comparison of a duration is against MinSpacing or a Retry-After
Horizon == Max(MinSpacing, RetrySeconds)

VARIABLES
    orders,       \* table orders: set of rows
    withdrawals,  \* table withdrawals: set of rows
    balance,      \* table balance: user_id -> amount
    wpc,          \* worker -> where it stands in processAsync
    wrec,         \* worker -> the record it took from queueIn
    wout,         \* worker -> the finalRecord it is sending to queueOut
    hsend,        \* entries request handlers are blocked sending (SendToQueue)
    wreq,         \* withdrawal requests that passed the funds check
    recPc,        \* recovery goroutine: "scan", "send", "closed", "panic"
    recStalled,   \* the stalled orders recovery has still to send
    lifetime,     \* number of restarts so far
    sincePoll,    \* history: order number -> seconds since its last GetAccrual
    retryLeft,    \* history: order number -> seconds left of its last Retry-After
    consecFail,   \* history: order number -> consecutive failed polls
    gaveUp,       \* history: order numbers abandoned in this lifetime
    reply,        \* history: what the last request handler to return answered
    users,        \* table users: set of rows
    mu,           \* Storage.mu: the goroutine that holds it
    bpc,          \* broker goroutine: where it stands in ListenAndProcess
    ppc           \* persister goroutine: where it stands in its loop over queueOut

vars == <<orders, withdrawals, balance, wpc, wrec, wout, hsend, wreq, recPc,
          recStalled, lifetime, sincePoll, retryLeft, consecFail, gaveUp, reply,
          users, mu, bpc, ppc>>

store == <<orders, withdrawals, balance>>
pool == <<wpc, wrec, wout>>
history == <<sincePoll, retryLeft, consecFail, gaveUp>>
accounts == <<users, mu>>

\* Storage.mu unlocked
Free == [by |-> "", UserID |-> "", blocked |-> FALSE]

\* the context InitServer received is cancelled: the broker has left <-b.ctx.Done()
CtxDone == bpc # "listen"

\* close(b.queueIn) has run
QueueInClosed == bpc \in {"closeOut", "wait", "stopped"}

\* close(b.queueOut) has run
QueueOutClosed == bpc \in {"wait", "stopped"}

NoEntry == [OrderNumber |-> 0]

\* modelqueue.OrderQueueEntry with its zero values; LastChecked is the zero time
OrderQueueEntry(u, o, st) ==
    [UserID |-> u, OrderNumber |-> o, OrderStatus |-> st, RetryCount |-> 0,
     Accrual |-> 0, Since |-> Horizon, RetryAfter |-> 0]

\* ------------------------------------------------------------ ledger store
\* a processor without the Luhn check
AnyNumber(n) == TRUE

\* goluhn.Validate: the Luhn checksum over the decimal digits of n
RECURSIVE LuhnSum(_, _)
LuhnSum(n, double) ==
    IF n = 0 THEN 0
    ELSE LET d == n % 10
             v == IF double THEN (IF 2 * d > 9 THEN 2 * d - 9 ELSE 2 * d) ELSE d
         IN  v + LuhnSum(n \div 10, ~double)

Validate(n) == LuhnSum(n, FALSE) % 10 = 0

\* a table declared without the UNIQUE constraint accepts every insert
NoConstraint(rows, o) == FALSE

\* order_number BIGINT NOT NULL UNIQUE
UniqueViolation(rows, o) == \E r \in rows : r.OrderNumber = o

\* INSERT INTO orders (user_id, order_number, status, accrual, created_at)
InsertOrder(rows, u, o, st) ==
    rows \cup {[UserID |-> u, OrderNumber |-> o, Status |-> st, Accrual |-> 0]}

\* a statement that writes nothing
NoInsert(rows, u, o, a) == rows

\* INSERT INTO withdrawals (user_id, order_number, amount, processed_at)
InsertWithdrawal(rows, u, o, a) ==
    rows \cup {[UserID |-> u, OrderNumber |-> o, Amount |-> a]}

\* a store that takes every existing row for another user's
OthersRow(rows, u, o) ==
    IF \E r \in rows : r.OrderNumber = o THEN "AlreadyExistsAndViolatesError" ELSE "ok"

\* Storage.AddNewOrder: the error kind it sends on chanEr, or "ok"
AddNewOrderResult(rows, u, o) ==
    IF ~UniqueViolation(rows, o) THEN "ok"
    ELSE IF \E r \in rows : r.OrderNumber = o /\ r.UserID = u
         THEN "AlreadyExistsError"
         ELSE "AlreadyExistsAndViolatesError"

\* UPDATE orders SET status = $1, accrual = $2 WHERE order_number = $3
UpdOrder(rows, o, st, acc) ==
    {IF r.OrderNumber = o THEN [r EXCEPT !.Status = st, !.Accrual = acc] ELSE r
        : r \in rows}

\* a transaction that leaves the balance alone
NoCredit(bal, u, acc) == bal

\* an UPDATE of balance without the WHERE clause
CreditAll(bal, u, acc) == [x \in DOMAIN bal |-> bal[x] + acc]

\* UPDATE balance SET amount = (amount + $1) WHERE user_id = $2
UpdBalance(bal, u, acc) ==
    IF u \in DOMAIN bal THEN [bal EXCEPT ![u] = @ + acc] ELSE bal

\* a processor without the funds check
AlwaysEnough(bal, u, a) == TRUE

\* Processor.AddNewWithdrawal: currentAmount < withdrawal.Amount refuses
EnoughFunds(bal, u, a) == ~(bal[u] < a)

\* a scan without the WHERE clause
AllOrders(rows) == rows

\* SELECT * FROM orders WHERE status NOT IN ('PROCESSED', 'INVALID')
getStalledOrders(rows) ==
    {r \in rows : r.Status \notin {"PROCESSED", "INVALID"}}

\* ---------------------------------------------------------- accrual service
\* what GetAccrual may return: code 0 is a transport error
Fail(c) == [code |-> c, parses |-> FALSE, status |-> "", accrual |-> 0, retryAfter |-> 0]
TooMany(k) == [code |-> 429, parses |-> FALSE, status |-> "", accrual |-> 0, retryAfter |-> k]
BadBody == [code |-> 200, parses |-> FALSE, status |-> "", accrual |-> 0, retryAfter |-> 0]
Ok(st, acc) == [code |-> 200, parses |-> TRUE, status |-> st, accrual |-> acc, retryAfter |-> 0]

Responses ==
    {Fail(c) : c \in {0, 500, 400, 422}}
    \cup {TooMany(k) : k \in {0, RetrySeconds}}
    \cup {BadBody}
    \cup {Ok(st, 0) : st \in {"REGISTERED", "PROCESSING", "INVALID", "PROCESSED"}}
    \cup {Ok("PROCESSED", acc) : acc \in 1..MaxAccrual}

\* ------------------------------------------------------------------ broker
\* a map that takes every status of the accrual service for PROCESSING
AllProcessing(s) == "PROCESSING"

statusMap(s) ==
    CASE s = "INVALID" -> "INVALID"
      [] s = "PROCESSED" -> "PROCESSED"
      [] s = "PROCESSING" -> "PROCESSING"
      [] s = "REGISTERED" -> "NEW"
      [] OTHER -> ""

finalRecord(rec, st, acc) ==
    [UserID |-> rec.UserID, OrderNumber |-> rec.OrderNumber, OrderStatus |-> st,
     RetryCount |-> 0, Accrual |-> acc, Since |-> Horizon, RetryAfter |-> 0]

\* a worker without the check of the Retry-After
NeverPending(rec) == FALSE

\* the check that opens the loop body: the Retry-After has not yet passed
RetryAfterPending(rec) == rec.RetryAfter # 0 /\ rec.Since < rec.RetryAfter

\* the busy wait: time.Since(record.LastChecked) < 10*time.Second
MustWait(rec) == rec.Since < MinSpacing

\* the retry budget is spent
Abandon(rec) == rec.RetryCount >= RetryNumber

\* what a failed poll does to the record before it goes back to queueIn
FailedRecord(rec) == [rec EXCEPT !.RetryCount = @ + 1, !.Since = 0]

\* what an unparseable body does to the record
UnparsedRecord(rec) == [rec EXCEPT !.RetryCount = @ + 1, !.Since = 0, !.RetryAfter = 0]

\* a worker that counts a 429 as a failed attempt
CountedDelay(rec, k) == [rec EXCEPT !.RetryCount = @ + 1, !.Since = 0, !.RetryAfter = k]

\* what a 429 does to the record
DelayedRecord(rec, k) == [rec EXCEPT !.Since = 0, !.RetryAfter = k]

\* what a poll without news, or a re-push after a non-final update, does
CheckedRecord(rec) == [rec EXCEPT !.Since = 0, !.RetryAfter = 0]

\* one pass of the loop body of processAsync from the GetAccrual call on:
\* where the worker goes next, with which record and which finalRecord
processAsync(rec, resp) ==
    IF resp.code \notin {429, 200} THEN
        IF Abandon(rec)
        THEN [pc |-> "sendOut", rec |-> NoEntry,
              out |-> finalRecord(rec, rec.OrderStatus, rec.Accrual)]
        ELSE [pc |-> "sendIn", rec |-> FailedRecord(rec), out |-> NoEntry]
    ELSE IF resp.code = 429 THEN
        [pc |-> "sendIn", rec |-> DelayedRecord(rec, resp.retryAfter), out |-> NoEntry]
    ELSE IF ~resp.parses THEN
        [pc |-> "sendIn", rec |-> UnparsedRecord(rec), out |-> NoEntry]
    ELSE IF statusMap(resp.status) = rec.OrderStatus THEN
        [pc |-> "sendIn", rec |-> CheckedRecord(rec), out |-> NoEntry]
    ELSE IF statusMap(resp.status) \in {"PROCESSED", "INVALID"} THEN
        [pc |-> "sendOut", rec |-> NoEntry,
         out |-> finalRecord(rec, statusMap(resp.status), resp.accrual)]
    ELSE
        [pc |-> "sendOutIn", rec |-> rec,
         out |-> finalRecord(rec, statusMap(resp.status), resp.accrual)]

\* how a poll counts for the retry budget: "fail", "delay" or "ok"
PollKind(resp) ==
    IF resp.code \notin {429, 200} THEN "fail"
    ELSE IF resp.code = 429 THEN "delay"
    ELSE IF ~resp.parses THEN "fail"
    ELSE "ok"

\* ---------------------------------------------------------------- handlers
\* HandleNewOrder: the status code written for what Processor.AddNewOrder returns
NewOrderStatus(res) ==
    CASE res = "ContextTimeoutExceededError" -> 504
      [] res = "ServiceIllegalOrderNumber" -> 422
      [] res = "AlreadyExistsError" -> 200
      [] res = "AlreadyExistsAndViolatesError" -> 409
      [] res = "ok" -> 202
      [] OTHER -> 500

\* HandleNewWithdrawal: the status code written for what
\* Processor.AddNewWithdrawal returns
NewWithdrawalStatus(res) ==
    CASE res = "ContextTimeoutExceededError" -> 504
      [] res \in {"ServiceIllegalOrderNumber", "AlreadyExistsError"} -> 422
      [] res = "ServiceNotEnoughFunds" -> 402
      [] res = "ok" -> 200
      [] OTHER -> 500

\* ------------------------------------------------------------------- state
Ev(op, num, res) == [op |-> op, num |-> num, res |-> res]

\* the tables and the goroutines once InitServer has returned
InitTables(rows, urows) ==
    /\ orders = rows
    /\ withdrawals = {}
    /\ balance = [u \in {r.UserID : r \in urows} |-> 0]
    /\ wpc = [w \in Workers |-> "recv"]
    /\ wrec = [w \in Workers |-> NoEntry]
    /\ wout = [w \in Workers |-> NoEntry]
    /\ hsend = {}
    /\ wreq = {}
    /\ recPc = "scan"
    /\ recStalled = {}
    /\ lifetime = 0
    /\ sincePoll = [o \in OrderNumbers |-> Horizon]
    /\ retryLeft = [o \in OrderNumbers |-> 0]
    /\ consecFail = [o \in OrderNumbers |-> 0]
    /\ gaveUp = {}
    /\ reply = Ev("", 0, "")

\* Secretary.Encode: AES-GCM under one key and one nonce, hex-encoded; equal
\* texts give equal ciphertexts and different texts different ones
Encode(data) == <<"aesgcm", data>>

\* the rows two registrations leave behind: every user's login is its own name
Registered ==
    {[UserID |-> u, Login |-> Encode(u), Password |-> Encode("p")] : u \in Users}

\* the state once InitServer has returned, the tables holding the given rows
InitOn(rows, urows) ==
    /\ users = urows
    /\ mu = Free
    /\ bpc = "listen"
    /\ ppc = "range"
    /\ InitTables(rows, urows)

\* ... every user of Users registered
InitWith(rows) == InitOn(rows, Registered)

\* the first start, on empty tables
Init == InitWith({})

\* --------------------------------------------------------------- processor
\* Processor.AddNewOrder up to the send of SendToQueue, which blocks until a
\* worker receives: Luhn check, Storage.AddNewOrder, then the entry is offered
AddNewOrder(u, o) ==
    /\ UNCHANGED <<ppc, accounts, bpc, withdrawals, balance, pool, wreq, recPc, recStalled, lifetime, history>>
    /\ IF ~Validate(o)
       THEN /\ UNCHANGED <<orders, hsend>>
            /\ reply' = Ev("AddNewOrder", o, "ServiceIllegalOrderNumber")
       ELSE IF AddNewOrderResult(orders, u, o) # "ok"
       THEN /\ UNCHANGED <<orders, hsend>>
            /\ reply' = Ev("AddNewOrder", o, AddNewOrderResult(orders, u, o))
       ELSE /\ orders' = InsertOrder(orders, u, o, "NEW")
            /\ hsend' = hsend \cup {OrderQueueEntry(u, o, "NEW")}
            /\ UNCHANGED reply

\* Processor.AddNewWithdrawal up to the call of Storage.AddNewWithdrawal:
\* Luhn check, GetCurrentAmount, the funds check
CheckFunds(u, o, a) ==
    /\ mu = Free
    /\ UNCHANGED <<ppc, accounts, bpc, store, pool, hsend, recPc, recStalled, lifetime, history>>
    /\ IF ~Validate(o)
       THEN /\ UNCHANGED wreq
            /\ reply' = Ev("AddNewWithdrawal", o, "ServiceIllegalOrderNumber")
       ELSE IF ~EnoughFunds(balance, u, a)
       THEN /\ UNCHANGED wreq
            /\ reply' = Ev("AddNewWithdrawal", o, "ServiceNotEnoughFunds")
       ELSE /\ Cardinality(wreq) < MaxInFlight
            /\ wreq' = wreq \cup {[UserID |-> u, OrderNumber |-> o, Amount |-> a]}
            /\ UNCHANGED reply

\* Storage.AddNewWithdrawal: one transaction, rolled back unless all three
\* statements pass
AddNewWithdrawal(r) ==
    /\ r \in wreq
    /\ wreq' = wreq \ {r}
    /\ UNCHANGED <<ppc, accounts, bpc, pool, hsend, recPc, recStalled, lifetime, history>>
    /\ IF UniqueViolation(orders, r.OrderNumber)
          \/ UniqueViolation(withdrawals, r.OrderNumber)
       THEN /\ UNCHANGED store
            /\ reply' = Ev("AddNewWithdrawal", r.OrderNumber, "AlreadyExistsError")
       ELSE /\ orders' = InsertOrder(orders, r.UserID, r.OrderNumber, "PROCESSED")
            /\ withdrawals' = InsertWithdrawal(withdrawals, r.UserID, r.OrderNumber, r.Amount)
            /\ balance' = UpdBalance(balance, r.UserID, 0 - r.Amount)
            /\ reply' = Ev("AddNewWithdrawal", r.OrderNumber, "ok")

\* Storage.AddNewWithdrawal when the request's context ends before chanOk is
\* received, or a statement fails otherwise: the deferred tx.Rollback() runs
AbortWithdrawal(r) ==
    /\ r \in wreq
    /\ wreq' = wreq \ {r}
    /\ reply' = Ev("AddNewWithdrawal", r.OrderNumber, "ContextTimeoutExceededError")
    /\ UNCHANGED <<ppc, accounts, bpc, store, pool, hsend, recPc, recStalled, lifetime, history>>

\* Storage.AddNewOrder when the 500 ms of the request end while a statement is
\* being prepared: PrepareContext returns the context's error and the call
\* returns it as a StatementPSQLError, before any goroutine is started
OrderPrepareExpires(u, o) ==
    /\ Validate(o)
    /\ reply' = Ev("AddNewOrder", o, "StatementPSQLError")
    /\ UNCHANGED <<ppc, store, accounts, bpc, pool, hsend, wreq, recPc, recStalled, lifetime, history>>

\* Storage.AddNewOrder when the 500 ms end in the select: the INSERT, which runs
\* outside any transaction, has been executed or not; nothing is sent to queueIn
AddNewOrderTimeout(u, o) ==
    /\ Validate(o)
    /\ \/ orders' = orders
       \/ ~UniqueViolation(orders, o) /\ orders' = InsertOrder(orders, u, o, "NEW")
    /\ reply' = Ev("AddNewOrder", o, "ContextTimeoutExceededError")
    /\ UNCHANGED <<ppc, withdrawals, balance, accounts, bpc, pool, hsend, wreq, recPc, recStalled, lifetime, history>>

\* Storage.AddNewWithdrawal when the 500 ms end while a statement is being
\* prepared
WithdrawalPrepareExpires(r) ==
    /\ r \in wreq
    /\ wreq' = wreq \ {r}
    /\ reply' = Ev("AddNewWithdrawal", r.OrderNumber, "StatementPSQLError")
    /\ UNCHANGED <<ppc, store, accounts, bpc, pool, hsend, recPc, recStalled, lifetime, history>>

\* ---------------------------------------------------------------- accounts
\* the logins and passwords of the register and login requests explored
Logins == {"alice", "bob"}
Passwords == {"p", "q"}

\* what a register or login request presented and what its handler was returned
AuthEv(op, l, p, res, id) ==
    [op |-> op, num |-> 0, res |-> res, login |-> l, password |-> p, user |-> id]

\* HandleLogin: the status code written for what Processor.LoginUser returns
LoginStatus(res) ==
    CASE res = "ContextTimeoutExceededError" -> 504
      [] res = "NotFoundError" -> 401
      [] res = "ok" -> 200
      [] OTHER -> 500

\* HandleLogin sets the Authorization header only when LoginUser returned no error
Authorization(res) == res = "ok"

\* Storage.mu held by the goroutine of AddNewUser between its two statements
Holding(id, l, p) == [by |-> "AddNewUser", UserID |-> id, blocked |-> FALSE, login |-> l, password |-> p]

\* Storage.mu held by a goroutine that is blocked for ever on chanEr or chanOk,
\* the call that started it having returned: its deferred Unlock never runs
Stuck(op) == [by |-> op, UserID |-> "", blocked |-> TRUE]

\* no call of the store is between its statements
Idle == mu = Free \/ mu.blocked

\* subtle.ConstantTimeCompare of the SHA-256 of the presented and of the stored
\* ciphered password
passwordMatch(row, p) == row.Password = Encode(p)

\* Storage.AddNewUser up to its second statement: the goroutine locks the mutex
\* and runs INSERT INTO users; id is the uuid NewToken made
AddNewUser(l, p, id) ==
    /\ mu = Free
    /\ id \notin {r.UserID : r \in users}
    /\ UNCHANGED <<ppc, store, pool, hsend, wreq, recPc, recStalled, lifetime, history, bpc>>
    /\ IF \E r \in users : r.Login = Encode(l)
       THEN /\ UNCHANGED <<users, mu>>
            /\ reply' = AuthEv("AddNewUser", l, p, "AlreadyExistsError", "")
       ELSE /\ users' = users \cup {[UserID |-> id, Login |-> Encode(l), Password |-> Encode(p)]}
            /\ mu' = Holding(id, l, p)
            /\ UNCHANGED reply

\* INSERT INTO users fails for a reason other than the unique constraint
UserInsertFails(l, p) ==
    /\ mu = Free
    /\ reply' = AuthEv("AddNewUser", l, p, "ExecutionPSQLError", "")
    /\ UNCHANGED <<ppc, store, accounts, pool, hsend, wreq, recPc, recStalled, lifetime, history, bpc>>

\* INSERT INTO balance (user_id, amount) VALUES ($1, 0), then chanOk
InsertBalance ==
    /\ mu.by = "AddNewUser" /\ ~mu.blocked
    /\ balance' = (mu.UserID :> 0) @@ balance
    /\ mu' = Free
    /\ reply' = AuthEv("AddNewUser", mu.login, mu.password, "ok", mu.UserID)
    /\ UNCHANGED <<ppc, orders, withdrawals, users, pool, hsend, wreq, recPc, recStalled, lifetime, history, bpc>>

\* INSERT INTO balance fails: the error goes to chanEr and the goroutine returns
BalanceInsertFails ==
    /\ mu.by = "AddNewUser" /\ ~mu.blocked
    /\ mu' = Free
    /\ reply' = AuthEv("AddNewUser", mu.login, mu.password, "ExecutionPSQLError", "")
    /\ UNCHANGED <<ppc, store, users, pool, hsend, wreq, recPc, recStalled, lifetime, history, bpc>>

\* the 500 ms of the request end between the two statements: AddNewUser returns
\* on ctx.Done(); the second statement runs or is refused with the ended
\* context, and the goroutine then blocks on a channel nobody reads
RegisterTimeout ==
    /\ mu.by = "AddNewUser" /\ ~mu.blocked
    /\ \/ balance' = (mu.UserID :> 0) @@ balance
       \/ balance' = balance
    /\ mu' = Stuck("AddNewUser")
    /\ reply' = AuthEv("AddNewUser", mu.login, mu.password, "ContextTimeoutExceededError", "")
    /\ UNCHANGED <<ppc, orders, withdrawals, users, pool, hsend, wreq, recPc, recStalled, lifetime, history, bpc>>

\* Storage.CheckUser: what it returns and who holds the mutex afterwards
CheckUser(l, p) ==
    LET rows == {r \in users : r.Login = Encode(l)}
        row == CHOOSE r \in rows : TRUE
    IN  /\ mu = Free
        /\ UNCHANGED <<ppc, store, users, pool, hsend, wreq, recPc, recStalled, lifetime, history, bpc>>
        /\ IF rows = {}
           THEN /\ reply' = AuthEv("LoginUser", l, p, "NotFoundError", "")
                /\ UNCHANGED mu
           ELSE IF ~passwordMatch(row, p)
           THEN /\ reply' = AuthEv("LoginUser", l, p, "NotFoundError", "")
                /\ mu' = Stuck("CheckUser")
           ELSE /\ reply' = AuthEv("LoginUser", l, p, "ok", row.UserID)
                /\ UNCHANGED mu

\* a call whose goroutine waits in s.mu.Lock() until the 500 ms have passed
LockTimeout(op, l, p) ==
    /\ mu # Free
    /\ reply' = AuthEv(op, l, p, "ContextTimeoutExceededError", "")
    /\ UNCHANGED <<ppc, store, accounts, pool, hsend, wreq, recPc, recStalled, lifetime, history, bpc>>

\* ---------------------------------------------------------------- recovery
\* the goroutine InitStorage starts: getStalledOrders, then one SendToQueue each
RecoveryScan ==
    /\ recPc = "scan"
    /\ mu = Free
    /\ recPc' = "send"
    /\ recStalled' = {OrderQueueEntry(r.UserID, r.OrderNumber, r.Status)
                        : r \in getStalledOrders(orders)}
    /\ UNCHANGED <<ppc, accounts, bpc, store, pool, hsend, wreq, lifetime, history, reply>>

\* ------------------------------------------------------------------ workers
Take(w, e) ==
    /\ ~QueueInClosed
    /\ wpc' = [wpc EXCEPT ![w] = "hold"]
    /\ wrec' = [wrec EXCEPT ![w] = e]
    /\ UNCHANGED <<ppc, accounts, bpc, wout, store, wreq, lifetime, history>>

\* for record := range w.queueIn, the sender being a request handler, which
\* then returns
RecvFromHandler(w, e) ==
    /\ wpc[w] = "recv"
    /\ e \in hsend
    /\ hsend' = hsend \ {e}
    /\ Take(w, e)
    /\ UNCHANGED <<recPc, recStalled>>
    /\ reply' = Ev("AddNewOrder", e.OrderNumber, "ok")

\* ... the sender being the recovery goroutine
RecvFromRecovery(w, e) ==
    /\ wpc[w] = "recv"
    /\ recPc = "send"
    /\ e \in recStalled
    /\ recStalled' = recStalled \ {e}
    /\ Take(w, e)
    /\ UNCHANGED <<recPc, hsend, reply>>

\* a queue that hands a copy to the receiver and leaves the record with the sender
CopyFromWorker(w, v) ==
    /\ wpc[w] = "recv"
    /\ wpc[v] = "sendIn"
    /\ ~QueueInClosed
    /\ wpc' = [wpc EXCEPT ![w] = "hold"]
    /\ wrec' = [wrec EXCEPT ![w] = wrec[v]]
    /\ UNCHANGED <<ppc, accounts, bpc, wout, store, wreq, lifetime, history, recPc, recStalled, hsend, reply>>

\* ... the sender being a worker that puts its record back
RecvFromWorker(w, v) ==
    /\ wpc[w] = "recv"
    /\ wpc[v] = "sendIn"
    /\ ~QueueInClosed
    /\ wpc' = [wpc EXCEPT ![w] = "hold", ![v] = "recv"]
    /\ wrec' = [wrec EXCEPT ![w] = wrec[v], ![v] = NoEntry]
    /\ UNCHANGED <<ppc, accounts, bpc, wout, store, wreq, lifetime, history, recPc, recStalled, hsend, reply>>

\* the Retry-After has not passed: the record goes back unpolled
Backoff(w) ==
    /\ wpc[w] = "hold"
    /\ RetryAfterPending(wrec[w])
    /\ wpc' = [wpc EXCEPT ![w] = "sendIn"]
    /\ UNCHANGED <<ppc, accounts, bpc, wrec, wout, store, hsend, wreq, recPc, recStalled, lifetime, history, reply>>

\* GetAccrual and the handling of its answer
Poll(w, resp) ==
    LET rec == wrec[w]
        o == rec.OrderNumber
        next == processAsync(rec, resp)
    IN  /\ wpc[w] = "hold"
        /\ ~RetryAfterPending(rec)
        /\ ~MustWait(rec)
        /\ rec.RetryCount < MaxRetryCount
        /\ CtxDone => resp = Fail(0)
        /\ wpc' = [wpc EXCEPT ![w] = next.pc]
        /\ wrec' = [wrec EXCEPT ![w] = next.rec]
        /\ wout' = [wout EXCEPT ![w] = next.out]
        /\ sincePoll' = [sincePoll EXCEPT ![o] = 0]
        /\ retryLeft' = [retryLeft EXCEPT ![o] =
                            IF resp.code = 429 THEN Max(@, resp.retryAfter) ELSE @]
        /\ consecFail' = [consecFail EXCEPT ![o] =
                            CASE PollKind(resp) = "fail" -> Min(@ + 1, MaxRetryCount)
                              [] PollKind(resp) = "ok" -> 0
                              [] OTHER -> @]
        /\ gaveUp' = IF PollKind(resp) = "fail" /\ next.pc = "sendOut"
                     THEN gaveUp \cup {o} ELSE gaveUp
        /\ UNCHANGED <<ppc, accounts, bpc, store, hsend, wreq, recPc, recStalled, lifetime, reply>>

\* ---------------------------------------------------------------- persister
\* for record := range st.QueueOut { st.updateOrder(...) }: the worker's send
\* on queueOut meets the persister's receive, and the transaction runs
updateOrder(w) ==
    /\ wpc[w] \in {"sendOut", "sendOutIn"}
    /\ ~CtxDone
    /\ mu = Free
    /\ ppc = "range"
    /\ orders' = UpdOrder(orders, wout[w].OrderNumber, wout[w].OrderStatus, wout[w].Accrual)
    /\ balance' = UpdBalance(balance, wout[w].UserID, wout[w].Accrual)
    /\ wpc' = [wpc EXCEPT ![w] = IF @ = "sendOut" THEN "recv" ELSE "sendIn"]
    /\ wrec' = [wrec EXCEPT ![w] = IF wpc[w] = "sendOut" THEN NoEntry ELSE CheckedRecord(@)]
    /\ wout' = [wout EXCEPT ![w] = NoEntry]
    /\ UNCHANGED <<ppc, accounts, bpc, withdrawals, hsend, wreq, recPc, recStalled, lifetime, history, reply>>

\* the worker's send on queueOut has been received: it goes on to the next
\* record, or to put its own record back
Emitted(w) ==
    /\ wpc' = [wpc EXCEPT ![w] = IF @ = "sendOut" THEN "recv" ELSE "sendIn"]
    /\ wrec' = [wrec EXCEPT ![w] = IF wpc[w] = "sendOut" THEN NoEntry ELSE CheckedRecord(@)]
    /\ wout' = [wout EXCEPT ![w] = NoEntry]

\* Storage.updateOrder fails and the persister logs it.  A failure of
\* PrepareContext or BeginTx returns before the goroutine is started; after a
\* failure of a statement (exec) the goroutine sends on chanEr, does not
\* return, and blocks on its next send with s.mu locked; the deferred
\* tx.Rollback() undoes what the transaction did
updateOrderFails(w, exec) ==
    /\ wpc[w] \in {"sendOut", "sendOutIn"}
    /\ ~CtxDone
    /\ mu = Free
    /\ ppc = "range"
    /\ Emitted(w)
    /\ mu' = IF exec THEN Stuck("updateOrder") ELSE Free
    /\ UNCHANGED <<store, users, bpc, ppc, hsend, wreq, recPc, recStalled, lifetime, history, reply>>

\* the persister receives a completion while s.mu is held by a blocked
\* goroutine: the goroutine of this updateOrder waits in s.mu.Lock() and the
\* select of the call, whose context has no deadline, waits with it
updateOrderHangs(w) ==
    /\ wpc[w] \in {"sendOut", "sendOutIn"}
    /\ ~CtxDone
    /\ mu.blocked
    /\ ppc = "range"
    /\ ppc' = "hung"
    /\ Emitted(w)
    /\ UNCHANGED <<store, accounts, bpc, hsend, wreq, recPc, recStalled, lifetime, history, reply>>

\* ---------------------------------------------------------------- shutdown
\* main's cancel(), which runs once server.Shutdown has seen every request
\* handler return; the broker goroutine leaves <-b.ctx.Done()
Cancel ==
    /\ bpc = "listen"
    /\ hsend = {} /\ wreq = {} /\ Idle
    /\ bpc' = "closeIn"
    /\ UNCHANGED <<ppc, store, accounts, pool, hsend, wreq, recPc, recStalled, lifetime, history, reply>>

\* close(b.queueIn)
CloseQueueIn ==
    /\ bpc = "closeIn"
    /\ bpc' = "closeOut"
    /\ UNCHANGED <<ppc, store, accounts, pool, hsend, wreq, recPc, recStalled, lifetime, history, reply>>

\* close(b.queueOut)
CloseQueueOut ==
    /\ bpc = "closeOut"
    /\ bpc' = "wait"
    /\ UNCHANGED <<ppc, store, accounts, pool, hsend, wreq, recPc, recStalled, lifetime, history, reply>>

\* g.Wait() returns once every processAsync has returned
WaitReturns ==
    /\ bpc = "wait"
    /\ \A w \in Workers : wpc[w] = "done"
    /\ bpc' = "stopped"
    /\ UNCHANGED <<ppc, store, accounts, pool, hsend, wreq, recPc, recStalled, lifetime, history, reply>>

\* for record := range w.queueIn ends on the closed queue: return nil
RangeEnds(w) ==
    /\ wpc[w] = "recv"
    /\ QueueInClosed
    /\ wpc' = [wpc EXCEPT ![w] = "done"]
    /\ UNCHANGED <<ppc, wrec, wout, store, accounts, bpc, hsend, wreq, recPc, recStalled, lifetime, history, reply>>

\* the busy wait sees ctx.Done(): return nil, the record is dropped
WaitCancelled(w) ==
    /\ wpc[w] = "hold"
    /\ ~RetryAfterPending(wrec[w])
    /\ MustWait(wrec[w])
    /\ CtxDone
    /\ wpc' = [wpc EXCEPT ![w] = "done"]
    /\ wrec' = [wrec EXCEPT ![w] = NoEntry]
    /\ UNCHANGED <<ppc, wout, store, accounts, bpc, hsend, wreq, recPc, recStalled, lifetime, history, reply>>

\* w.queueIn <- record or w.queueOut <- finalRecord on a closed queue, the
\* worker blocked in the send when the queue was closed or arriving at it
\* afterwards: the send panics
SendOnClosed(w) ==
    /\ \/ wpc[w] = "sendIn" /\ QueueInClosed
       \/ wpc[w] \in {"sendOut", "sendOutIn"} /\ QueueOutClosed
    /\ wpc' = [wpc EXCEPT ![w] = "panic"]
    /\ UNCHANGED <<ppc, wrec, wout, store, accounts, bpc, hsend, wreq, recPc, recStalled, lifetime, history, reply>>

\* the persister receives a completion after the cancellation: updateOrder
\* fails on the ended context (a call that was waiting returns on ctx.Done())
\* and the completion is only logged
LostCompletion(w) ==
    /\ wpc[w] \in {"sendOut", "sendOutIn"}
    /\ CtxDone
    /\ ~QueueOutClosed
    /\ ppc' = "range"
    /\ wpc' = [wpc EXCEPT ![w] = IF @ = "sendOut" THEN "recv" ELSE "sendIn"]
    /\ wrec' = [wrec EXCEPT ![w] = IF wpc[w] = "sendOut" THEN NoEntry ELSE CheckedRecord(@)]
    /\ wout' = [wout EXCEPT ![w] = NoEntry]
    /\ UNCHANGED <<store, accounts, bpc, hsend, wreq, recPc, recStalled, lifetime, history, reply>>

\* the recovery goroutine's SendToQueue on the closed queueIn panics
RecoveryPanics ==
    /\ recPc = "send"
    /\ recStalled # {}
    /\ QueueInClosed
    /\ recPc' = "panic"
    /\ UNCHANGED <<ppc, store, accounts, bpc, pool, hsend, wreq, recStalled, lifetime, history, reply>>

\* the recovery goroutine, its entries sent, leaves <-ctx.Done() and runs
\* st.DB.Close()
CloseDB ==
    /\ recPc = "send"
    /\ recStalled = {}
    /\ CtxDone
    /\ recPc' = "closed"
    /\ UNCHANGED <<ppc, store, accounts, bpc, pool, hsend, wreq, recStalled, lifetime, history, reply>>

\* st.DB.Close() has run
DBClosed == recPc = "closed"

\* -------------------------------------------------------------------- time
Older(d) == Min(d + TickStep, Horizon)

Tick ==
    /\ \/ \E w \in Workers : wrec[w] # NoEntry /\ wrec[w].Since < Horizon
       \/ \E o \in OrderNumbers : sincePoll[o] < Horizon \/ retryLeft[o] > 0
    /\ wrec' = [w \in Workers |->
                  IF wrec[w] = NoEntry THEN NoEntry
                  ELSE [wrec[w] EXCEPT !.Since = Older(@)]]
    /\ sincePoll' = [o \in OrderNumbers |-> Older(sincePoll[o])]
    /\ retryLeft' = [o \in OrderNumbers |-> Max(retryLeft[o] - TickStep, 0)]
    /\ UNCHANGED <<ppc, accounts, bpc, store, wpc, wout, hsend, wreq, recPc, recStalled, lifetime,
                   consecFail, gaveUp, reply>>

\* ----------------------------------------------------------------- restart
\* the process is killed and started again: the tables stay, all else is new
Restart ==
    /\ lifetime < MaxRestarts
    /\ lifetime' = lifetime + 1
    /\ wpc' = [w \in Workers |-> "recv"]
    /\ wrec' = [w \in Workers |-> NoEntry]
    /\ wout' = [w \in Workers |-> NoEntry]
    /\ hsend' = {}
    /\ wreq' = {}
    /\ recPc' = "scan"
    /\ recStalled' = {}
    /\ sincePoll' = [o \in OrderNumbers |-> Horizon]
    /\ retryLeft' = [o \in OrderNumbers |-> 0]
    /\ consecFail' = [o \in OrderNumbers |-> 0]
    /\ gaveUp' = {}
    /\ reply' = Ev("", 0, "")
    /\ mu' = Free
    /\ bpc' = "listen"
    /\ ppc' = "range"
    /\ UNCHANGED <<store, users>>

\* the order numbers of the requests explored: 18 and 26 pass the Luhn check,
\* 17 fails it
Uploads == {17, 18}
Withdraws == {17, 18, 26}

Next ==
    \/ \E u \in Users, o \in Uploads : AddNewOrder(u, o)
    \/ \E u \in Users, o \in Withdraws, a \in 1..MaxAmount : CheckFunds(u, o, a)
    \/ \E r \in wreq : AddNewWithdrawal(r)
    \/ RecoveryScan
    \/ \E w \in Workers, e \in hsend : RecvFromHandler(w, e)
    \/ \E w \in Workers, e \in recStalled : RecvFromRecovery(w, e)
    \/ \E w, v \in Workers : RecvFromWorker(w, v)
    \/ \E w \in Workers : Backoff(w)
    \/ \E w \in Workers, resp \in Responses : Poll(w, resp)
    \/ \E w \in Workers : updateOrder(w)
    \/ Tick
    \/ Restart

Spec == Init /\ [][Next]_vars

\* ---------------------------------------------------------------- the pool
\* one user uploads one order; the pool polls it under every answer of the
\* accrual service, with time passing and the process restarting
NextPool ==
    \/ AddNewOrder("u1", 18)
    \/ RecoveryScan
    \/ \E w \in Workers, e \in hsend : RecvFromHandler(w, e)
    \/ \E w \in Workers, e \in recStalled : RecvFromRecovery(w, e)
    \/ \E w, v \in Workers : RecvFromWorker(w, v)
    \/ \E w \in Workers : Backoff(w)
    \/ \E w \in Workers, resp \in Responses : Poll(w, resp)
    \/ \E w \in Workers : updateOrder(w)
    \/ Tick
    \/ Restart

SpecPool == Init /\ [][NextPool]_vars

\* -------------------------------------------------------------- the ledger
\* one user uploads an order and withdraws against two other numbers, the
\* accrual service answering 200 with a body that parses
Parsed == {r \in Responses : r.code = 200 /\ r.parses}

NextLedger ==
    \/ AddNewOrder("u1", 18)
    \/ \E o \in {26, 34}, a \in 1..MaxAmount : CheckFunds("u1", o, a)
    \/ \E r \in wreq : AddNewWithdrawal(r)
    \/ RecoveryScan
    \/ \E w \in Workers, e \in hsend : RecvFromHandler(w, e)
    \/ \E w \in Workers, e \in recStalled : RecvFromRecovery(w, e)
    \/ \E w, v \in Workers : RecvFromWorker(w, v)
    \/ \E w \in Workers, resp \in Parsed : Poll(w, resp)
    \/ \E w \in Workers : updateOrder(w)

SpecLedger == Init /\ [][NextLedger]_vars

\* --------------------------------------------------------------- the store
\* two users upload and withdraw against the same numbers
StoreNumbers == {17, 18, 26}

NextStore ==
    \/ \E u \in Users, o \in StoreNumbers : AddNewOrder(u, o)
    \/ \E u \in Users, o \in StoreNumbers, a \in 1..MaxAmount : CheckFunds(u, o, a)
    \/ \E r \in wreq : AddNewWithdrawal(r)
    \/ \E r \in wreq : AbortWithdrawal(r)
    \/ \E w \in Workers, e \in hsend : RecvFromHandler(w, e)
    \/ \E w, v \in Workers : RecvFromWorker(w, v)
    \/ \E w \in Workers, resp \in Parsed : Poll(w, resp)
    \/ \E w \in Workers : updateOrder(w)

SpecStore == Init /\ [][NextStore]_vars

\* ----------------------------------------------------------- the persister
\* one user uploads one order, the accrual service answers 200 with a body
\* that parses, and a call of updateOrder may fail
NextPersister ==
    \/ AddNewOrder("u1", 18)
    \/ \E w \in Workers, e \in hsend : RecvFromHandler(w, e)
    \/ \E w, v \in Workers : RecvFromWorker(w, v)
    \/ \E w \in Workers, resp \in Parsed : Poll(w, resp)
    \/ \E w \in Workers : updateOrder(w)
    \/ \E w \in Workers, exec \in BOOLEAN : updateOrderFails(w, exec)
    \/ \E w \in Workers : updateOrderHangs(w)
    \/ Tick

SpecPersister == Init /\ [][NextPersister]_vars

\* -------------------------------------------------------------- the bodies
\* one user uploads one order and the accrual service answers 200 with every
\* body that parses: the four statuses, a status string the service does not
\* document, and a body without the status field (OrderStatus stays "")
Bodies == Parsed \cup {Ok("UNKNOWN", 0), Ok("", 0)}

NextBodies ==
    \/ AddNewOrder("u1", 18)
    \/ \E w \in Workers, e \in hsend : RecvFromHandler(w, e)
    \/ \E w, v \in Workers : RecvFromWorker(w, v)
    \/ \E w \in Workers, resp \in Bodies : Poll(w, resp)
    \/ \E w \in Workers : updateOrder(w)
    \/ Tick

SpecBodies == Init /\ [][NextBodies]_vars

\* ------------------------------------------------------------ the deadline
\* the requests of the store, each of which may run out of its 500 ms
Expires ==
    \/ \E u \in Users, o \in StoreNumbers : OrderPrepareExpires(u, o)
    \/ \E u \in Users, o \in StoreNumbers : AddNewOrderTimeout(u, o)
    \/ \E r \in wreq : WithdrawalPrepareExpires(r)
    \/ \E r \in wreq : AbortWithdrawal(r)

NextDeadline ==
    \/ \E u \in Users, o \in StoreNumbers : AddNewOrder(u, o)
    \/ \E u \in Users, o \in StoreNumbers, a \in 1..MaxAmount : CheckFunds(u, o, a)
    \/ \E r \in wreq : AddNewWithdrawal(r)
    \/ \E w \in Workers, e \in hsend : RecvFromHandler(w, e)
    \/ \E w \in Workers, resp \in {Ok("PROCESSED", MaxAccrual)} : Poll(w, resp)
    \/ \E w \in Workers : updateOrder(w)
    \/ Expires

SpecDeadline == Init /\ [][NextDeadline]_vars

\* ------------------------------------------------------------ the accounts
\* registrations and logins on empty tables
InitAccounts == InitOn({}, {})

NextAccounts ==
    \/ \E l \in Logins, p \in Passwords, id \in Users : AddNewUser(l, p, id)
    \/ \E l \in Logins, p \in Passwords : UserInsertFails(l, p)
    \/ InsertBalance
    \/ BalanceInsertFails
    \/ RegisterTimeout
    \/ \E l \in Logins, p \in Passwords : CheckUser(l, p)
    \/ \E op \in {"AddNewUser", "LoginUser"}, l \in Logins, p \in Passwords : LockTimeout(op, l, p)

SpecAccounts == InitAccounts /\ [][NextAccounts]_vars

\* ------------------------------------------------------------ the shutdown
\* one user uploads one order, the pool polls it, and the context is cancelled
\* at any moment; every goroutine that can take a step takes it.  The accrual
\* service answers with a failure, a Retry-After, a status that is not final
\* and a final one; a call cut by the cancellation is the transport error
Answers == {Fail(500), TooMany(RetrySeconds), Ok("PROCESSING", 0), Ok("PROCESSED", MaxAccrual)}

Work(w) ==
    \/ \E e \in hsend : RecvFromHandler(w, e)
    \/ \E e \in recStalled : RecvFromRecovery(w, e)
    \/ \E v \in Workers : RecvFromWorker(w, v)
    \/ Backoff(w)
    \/ \E resp \in Answers \cup {Fail(0)} : Poll(w, resp)
    \/ RangeEnds(w)
    \/ WaitCancelled(w)
    \/ SendOnClosed(w)

Persist(w) == updateOrder(w) \/ LostCompletion(w)

Close == CloseQueueIn \/ CloseQueueOut \/ WaitReturns

NextShutdown ==
    \/ ~CtxDone /\ AddNewOrder("u1", 18)
    \/ RecoveryScan
    \/ \E w \in Workers : Work(w)
    \/ \E w \in Workers : Persist(w)
    \/ RecoveryPanics
    \/ Tick
    \/ Cancel
    \/ Close

SpecShutdown ==
    /\ Init
    /\ [][NextShutdown]_vars
    /\ \A w \in Workers : WF_vars(Work(w))
    /\ \A w \in Workers : WF_vars(Persist(w))
    /\ WF_vars(Close)
    /\ WF_vars(Tick)

\* --------------------------------------------------------------- the close
\* the shutdown with the goroutine that closes the database
NextClose ==
    \/ NextShutdown
    \/ CloseDB

SpecClose == Init /\ [][NextClose]_vars

\* ------------------------------------------------------------ the recovery
\* the process starts on tables in which an earlier run left orders of one
\* user unfinished; recovery hands them to the pool, the accrual service
\* answers 200 with a body that parses, and every goroutine that can take a
\* step takes it; a sender blocked on queueIn is served in its turn
Unfinished == {18, 26, 34}

StalledRows ==
    {rows \in SUBSET [UserID : {"u1"}, OrderNumber : Unfinished,
                      Status : {"NEW", "PROCESSING"}, Accrual : {0}] :
        \A r, q \in rows : r.OrderNumber = q.OrderNumber => r = q}

InitRecovery == \E rows \in StalledRows : InitWith(rows)

FromRecovery == \E w \in Workers, e \in recStalled : RecvFromRecovery(w, e)

FromWorker == \E w, v \in Workers : RecvFromWorker(w, v)

Answer(w) == \E resp \in Parsed : Poll(w, resp)

NextRecovery ==
    \/ RecoveryScan
    \/ FromRecovery
    \/ FromWorker
    \/ \E w \in Workers : Answer(w)
    \/ \E w \in Workers : updateOrder(w)
    \/ Tick

SpecRecovery ==
    /\ InitRecovery
    /\ [][NextRecovery]_vars
    /\ WF_vars(RecoveryScan)
    /\ SF_vars(FromRecovery)
    /\ WF_vars(FromWorker)
    /\ \A w \in Workers : WF_vars(Answer(w))
    /\ \A w \in Workers : WF_vars(updateOrder(w))
    /\ WF_vars(Tick)

\* ---------------------------------------------------------------- the seed
\* one user uploads two orders and withdraws against a third number, the
\* accrual service reports an order in work, refused or credited, and the
\* process is restarted: recovery then scans rows of every status, the
\* PROCESSED row of a withdrawal among them
Verdicts == {Ok("PROCESSING", 0), Ok("INVALID", 0), Ok("PROCESSED", MaxAccrual)}

NextSeed ==
    \/ \E o \in {18, 34} : AddNewOrder("u1", o)
    \/ \E a \in 1..MaxAmount : CheckFunds("u1", 26, a)
    \/ \E r \in wreq : AddNewWithdrawal(r)
    \/ RecoveryScan
    \/ \E w \in Workers, e \in hsend : RecvFromHandler(w, e)
    \/ \E w \in Workers, e \in recStalled : RecvFromRecovery(w, e)
    \/ \E w, v \in Workers : RecvFromWorker(w, v)
    \/ \E w \in Workers, resp \in Verdicts : Poll(w, resp)
    \/ \E w \in Workers : updateOrder(w)
    \/ Restart

SpecSeed == Init /\ [][NextSeed]_vars

\* --------------------------------------------------------------- the frame
\* one user is registered; a second registers and both log in, while the first
\* uploads an order, the pool polls it, recovery scans, and the first user
\* withdraws
InitFrame ==
    InitOn({}, {[UserID |-> "u1", Login |-> Encode("alice"), Password |-> Encode("p")]})

NextFrame ==
    \/ \E l \in Logins : AddNewUser(l, "p", "u2")
    \/ InsertBalance
    \/ BalanceInsertFails
    \/ \E l \in Logins, p \in Passwords : CheckUser(l, p)
    \/ AddNewOrder("u1", 18)
    \/ \E a \in 1..MaxAmount : CheckFunds("u1", 26, a)
    \/ \E r \in wreq : AddNewWithdrawal(r)
    \/ \E r \in wreq : AbortWithdrawal(r)
    \/ RecoveryScan
    \/ \E w \in Workers, e \in hsend : RecvFromHandler(w, e)
    \/ \E w \in Workers, e \in recStalled : RecvFromRecovery(w, e)
    \/ \E w, v \in Workers : RecvFromWorker(w, v)
    \/ \E w \in Workers, resp \in Verdicts : Poll(w, resp)
    \/ \E w \in Workers : updateOrder(w)
    \/ \E w \in Workers, exec \in BOOLEAN : updateOrderFails(w, exec)

SpecFrame == InitFrame /\ [][NextFrame]_vars

\* ------------------------------------------------------------- properties
Terminal == {"PROCESSED", "INVALID"}

RECURSIVE SumAccrual(_)
SumAccrual(rows) ==
    IF rows = {} THEN 0
    ELSE LET r == CHOOSE x \in rows : TRUE
         IN  r.Accrual + SumAccrual(rows \ {r})

RECURSIVE SumAmount(_)
SumAmount(rows) ==
    IF rows = {} THEN 0
    ELSE LET r == CHOOSE x \in rows : TRUE
         IN  r.Amount + SumAmount(rows \ {r})

Credited(u) == SumAccrual({r \in orders : r.UserID = u /\ r.Status = "PROCESSED"})

Withdrawn(u) == SumAmount({r \in withdrawals : r.UserID = u})

\* C1: in every reachable state each user's balance is the accruals of the
\* user's PROCESSED orders minus the user's withdrawals, and is not negative
LedgerInvariant ==
    \A u \in Users : balance[u] = Credited(u) - Withdrawn(u) /\ balance[u] >= 0

\* C2: of two concurrent withdrawals of one user that together exceed the
\* balance the store refuses at least one: no withdrawal that the store
\* commits leaves the balance negative
NoOverdraft ==
    [][\A r \in wreq : AddNewWithdrawal(r) => balance'[r.UserID] >= 0]_vars

Applied(rec) ==
    /\ rec.OrderStatus \in Terminal
    /\ \E r \in orders : /\ r.OrderNumber = rec.OrderNumber
                         /\ r.Status = rec.OrderStatus
                         /\ r.Accrual = rec.Accrual

\* C3: updateOrder is idempotent: applying a terminal completion whose status
\* and accrual the row already carries changes neither the row nor the balance
ApplyIdempotent ==
    [][\A w \in Workers : updateOrder(w) /\ Applied(wout[w])
            => orders' = orders /\ balance' = balance]_vars

\* C4: a row that is PROCESSED or INVALID keeps its status and accrual through
\* every later step
TerminalStays ==
    [][\A r \in orders : r.Status \in Terminal => r \in orders']_vars

AllowedMoves ==
    {<<"NEW", "PROCESSING">>, <<"NEW", "PROCESSED">>, <<"NEW", "INVALID">>,
     <<"PROCESSING", "PROCESSED">>, <<"PROCESSING", "INVALID">>}

\* C5: the stored status of an order moves only along NEW -> PROCESSING,
\* NEW -> PROCESSED, NEW -> INVALID, PROCESSING -> PROCESSED and
\* PROCESSING -> INVALID
StatusMoves ==
    [][\A r \in orders, q \in orders' :
            q.OrderNumber = r.OrderNumber /\ q.Status # r.Status
                => <<r.Status, q.Status>> \in AllowedMoves]_vars

\* C6: no two rows of orders carry the same order number, whoever owns them
\* and whichever of AddNewOrder and AddNewWithdrawal inserted them
UniqueOrderNumbers ==
    \A r, q \in orders : r.OrderNumber = q.OrderNumber => r = q

\* the upload of a number that another user's withdrawal had taken was
\* refused, and the number still has the one row
RefusedUpload ==
    /\ reply.op = "AddNewOrder"
    /\ reply.res = "AlreadyExistsAndViolatesError"
    /\ \E r \in withdrawals : r.OrderNumber = reply.num
    /\ Cardinality({r \in orders : r.OrderNumber = reply.num}) = 1

Stalled(o) == \E e \in recStalled : e.OrderNumber = o

\* C7: every order whose row is not terminal when the process starts is in
\* the end handed to a worker by recovery, provided the process keeps running
RecoveryDelivers ==
    \A o \in OrderNumbers :
        (recPc = "scan" /\ \E r \in getStalledOrders(orders) : r.OrderNumber = o)
            ~> (recPc = "send" /\ ~Stalled(o))

\* C8: after a 429 with Retry-After K no worker calls GetAccrual for that
\* order number before K seconds have passed
RetryAfterHonoured ==
    [][\A w \in Workers, resp \in Responses :
            Poll(w, resp) => retryLeft[wrec[w].OrderNumber] = 0]_vars

\* C9: two successive GetAccrual calls for one order number within one process
\* lifetime are at least MinSpacing seconds apart
PollSpacing ==
    [][\A w \in Workers, resp \in Responses :
            Poll(w, resp) => sincePoll[wrec[w].OrderNumber] >= MinSpacing]_vars

\* C10: an order is given up only at the end of RetryNumber consecutive failed
\* polls, failures before a successful poll not counting, and once given up it
\* is not polled again in this lifetime
GiveUpAfterLimit ==
    [][\A w \in Workers, resp \in Responses : Poll(w, resp) =>
            /\ wrec[w].OrderNumber \notin gaveUp
            /\ wrec[w].OrderNumber \in gaveUp'
                  => consecFail[wrec[w].OrderNumber] >= RetryNumber]_vars

\* the completion worker w is sending was made on giving the order up: only
\* that one leaves the record out of queueIn with a status that is not final
GivenUp(w) == wpc[w] = "sendOut" /\ wout[w].OrderStatus \notin Terminal

\* C11: when the persister applies the completion of an order given up, the
\* row's status and accrual and the owner's balance stay as they were
GiveUpKeepsLedger ==
    [][\A w \in Workers : updateOrder(w) /\ GivenUp(w)
            => orders' = orders /\ balance' = balance]_vars

NonTerminal(o) == \E r \in getStalledOrders(orders) : r.OrderNumber = o

\* C12: a poll of a non-terminal order answered 200 PROCESSED with accrual A
\* emits the one completion {user, number, PROCESSED, A} and drops the record;
\* when the persister applies that completion the row becomes PROCESSED with
\* accrual A and the owner's balance, and no other, grows by A
ProcessedOnce ==
    [][\A w \in Workers :
        /\ \A a \in 0..MaxAccrual :
              Poll(w, Ok("PROCESSED", a)) /\ NonTerminal(wrec[w].OrderNumber)
                => /\ wpc'[w] = "sendOut"
                   /\ wrec'[w] = NoEntry
                   /\ wout'[w] = finalRecord(wrec[w], "PROCESSED", a)
        /\ updateOrder(w) /\ wout[w].OrderStatus = "PROCESSED"
                => /\ \E r \in orders' : /\ r.OrderNumber = wout[w].OrderNumber
                                         /\ r.Status = "PROCESSED"
                                         /\ r.Accrual = wout[w].Accrual
                   /\ balance' = [balance EXCEPT ![wout[w].UserID] = @ + wout[w].Accrual]
                   /\ wpc'[w] = "recv"]_vars

\* an accrual of at least one point has been credited
Credit ==
    \E r \in orders : /\ r.Status = "PROCESSED"
                      /\ r.Accrual >= 1
                      /\ balance[r.UserID] >= r.Accrual

\* the three writes of a withdrawal, all made
Withdrew(r) ==
    /\ ~UniqueViolation(orders, r.OrderNumber)
    /\ orders' = orders \cup {[UserID |-> r.UserID, OrderNumber |-> r.OrderNumber,
                               Status |-> "PROCESSED", Accrual |-> 0]}
    /\ withdrawals' = withdrawals \cup {r}
    /\ balance' = [balance EXCEPT ![r.UserID] = @ - r.Amount]

Owner(o) == (CHOOSE r \in orders : r.OrderNumber = o).UserID

\* C15: Processor.AddNewOrder for a number that has a row returns
\* AlreadyExistsError (HTTP 200) when the row is the caller's and
\* AlreadyExistsAndViolatesError (HTTP 409) when it is another user's, and
\* leaves the rows as they are
ExistingOrderAnswer ==
    [][\A u \in Users, o \in OrderNumbers :
        AddNewOrder(u, o) /\ (\E r \in orders : r.OrderNumber = o)
            => /\ orders' = orders
               /\ reply'.op = "AddNewOrder" /\ reply'.num = o
               /\ IF Owner(o) = u
                  THEN reply'.res = "AlreadyExistsError"
                       /\ NewOrderStatus(reply'.res) = 200
                  ELSE reply'.res = "AlreadyExistsAndViolatesError"
                       /\ NewOrderStatus(reply'.res) = 409]_vars

\* the owner's second upload of a number was answered AlreadyExistsError
SecondUpload ==
    /\ reply.op = "AddNewOrder"
    /\ reply.res = "AlreadyExistsError"
    /\ \E r \in orders : r.OrderNumber = reply.num /\ r.Status = "NEW"

\* C16: Processor.AddNewOrder sends one entry {user, number, NEW} with
\* RetryCount 0 and RetryAfter 0 to queueIn exactly when the number passes the
\* Luhn check and Storage.AddNewOrder returned nil, the NEW row being stored by
\* then; in every other case it sends nothing
PushIffOk ==
    [][\A u \in Users, o \in OrderNumbers : AddNewOrder(u, o) =>
        IF LuhnSum(o, FALSE) % 10 = 0 /\ ~(\E r \in orders : r.OrderNumber = o)
        THEN /\ hsend' = hsend \cup {[UserID |-> u, OrderNumber |-> o,
                                      OrderStatus |-> "NEW", RetryCount |-> 0,
                                      Accrual |-> 0, Since |-> Horizon,
                                      RetryAfter |-> 0]}
             /\ hsend' # hsend
             /\ [UserID |-> u, OrderNumber |-> o, Status |-> "NEW", Accrual |-> 0]
                    \in orders'
        ELSE hsend' = hsend /\ orders' = orders]_vars

\* an entry is on its way to queueIn and its NEW row is stored, while an
\* upload that failed the Luhn check has sent nothing
Pushed ==
    /\ \E e \in hsend : [UserID |-> e.UserID, OrderNumber |-> e.OrderNumber,
                         Status |-> "NEW", Accrual |-> 0] \in orders
    /\ reply.res = "ServiceIllegalOrderNumber"
    /\ \A e \in hsend : e.OrderNumber # reply.num

\* C17: Processor.AddNewWithdrawal for a sum above the user's balance returns
\* ServiceNotEnoughFunds (HTTP 402) without calling Storage.AddNewWithdrawal,
\* the tables staying as they are; a withdrawal that reaches the store for a
\* number that has a row returns AlreadyExistsError (HTTP 422)
FundsChecked ==
    [][/\ \A u \in Users, o \in OrderNumbers, a \in 1..MaxAmount :
            CheckFunds(u, o, a) /\ LuhnSum(o, FALSE) % 10 = 0 /\ a > balance[u]
                => /\ reply'.res = "ServiceNotEnoughFunds"
                   /\ NewWithdrawalStatus(reply'.res) = 402
                   /\ UNCHANGED <<store, wreq>>
       /\ \A r \in wreq :
            AddNewWithdrawal(r) /\ (\E q \in orders : q.OrderNumber = r.OrderNumber)
                => /\ reply'.res = "AlreadyExistsError"
                   /\ NewWithdrawalStatus(reply'.res) = 422
                   /\ UNCHANGED store]_vars

\* a withdrawal above the balance was refused after an earlier one had gone
\* through
Refused402 ==
    /\ reply.op = "AddNewWithdrawal"
    /\ reply.res = "ServiceNotEnoughFunds"
    /\ withdrawals # {}
    /\ wreq = {}

\* C14: whenever no registration is between its two statements, the users with
\* a row in users are exactly the users with a row in balance (one row each,
\* balance being keyed by user_id): AddNewUser persists both rows or neither,
\* whatever it returns.
UserHasBalance == Idle => {r.UserID : r \in users} = DOMAIN balance

\* C18: a login made while no other call of the store is running returns a
\* user_id only if a row of users has the login and the ciphered password
\* presented, and that row's user_id; for an unknown login or a wrong password
\* it returns NotFound, which HandleLogin answers with 401 and no token.
LoginAnswers ==
    [][\A l \in Logins, p \in Passwords :
        (CheckUser(l, p) \/ LockTimeout("LoginUser", l, p)) /\ Idle
          => LET match == {r \in users : r.Login = Encode(l) /\ r.Password = Encode(p)}
             IN  /\ reply'.res = "ok" => \E r \in match : reply'.user = r.UserID
                 /\ match = {} => /\ reply'.res = "NotFoundError"
                                  /\ LoginStatus(reply'.res) = 401
                                  /\ ~Authorization(reply'.res)]_vars

\* C19: queueOut is closed only after queueIn is closed and every worker has
\* returned, and no worker, recovery step or request handler ever sends on a
\* closed queue.
ClosesInOrder ==
    /\ QueueOutClosed => QueueInClosed /\ \A w \in Workers : wpc[w] = "done"
    /\ \A w \in Workers : wpc[w] # "panic"
    /\ recPc # "panic"
    /\ QueueInClosed => hsend = {}

\* C20: once the context is cancelled, every worker eventually returns from
\* processAsync, wherever it stood.
WorkersReturn == CtxDone ~> \A w \in Workers : wpc[w] = "done"

\* C21: a call of the store whose deadline elapses before the store has
\* answered returns the Timeout error kind, which the handlers of the order
\* upload and of the withdrawal answer with 504, and never success.
DeadlineAnswers ==
    [][Expires => /\ reply'.res = "ContextTimeoutExceededError"
                  /\ reply'.op = "AddNewOrder" => NewOrderStatus(reply'.res) = 504
                  /\ reply'.op = "AddNewWithdrawal" => NewWithdrawalStatus(reply'.res) = 504]_vars

\* C22: in every reachable state the status of every row of orders is NEW,
\* PROCESSING, INVALID or PROCESSED, whatever body the accrual service sends
\* with a 200.
StatusDomain == \A r \in orders : r.Status \in {"NEW", "PROCESSING", "INVALID", "PROCESSED"}

\* the WorkItems there are: those offered by handlers and by recovery and those
\* workers hold
Items ==
    Cardinality(hsend) + Cardinality(recStalled)
        + Cardinality({w \in Workers : wrec[w] # NoEntry})

\* C23: a WorkItem is never in two hands.  Only the processor and recovery make
\* WorkItems; a worker comes to hold one only in a step in which the one that
\* offered it on queueIn (a handler, recovery, or another worker) gives it up,
\* so no step leaves the same WorkItem with two workers.
ItemsMove ==
    [][/\ Items' > Items =>
            (\E u \in Users, o \in OrderNumbers : AddNewOrder(u, o)) \/ RecoveryScan
       /\ \A w \in Workers : wpc[w] = "recv" /\ wpc'[w] = "hold" =>
            /\ Items' = Items
            /\ \/ wrec'[w] \in hsend \ hsend'
               \/ wrec'[w] \in recStalled \ recStalled'
               \/ \E v \in Workers \ {w} :
                     wpc[v] = "sendIn" /\ wrec[v] = wrec'[w] /\ wrec'[v] = NoEntry]_vars

\* a worker holds a record that was polled before, re-pushed by the other
\* worker, which holds nothing
HandedOver ==
    \E w, v \in Workers :
        /\ w # v
        /\ wpc[w] = "hold" /\ wrec[w].Since < Horizon
        /\ wpc[v] = "recv" /\ wrec[v] = NoEntry

\* the persister has taken the completion of worker w from queueOut
Consumed(w) ==
    /\ wpc[w] \in {"sendOut", "sendOutIn"}
    /\ wpc'[w] \in {"recv", "sendIn"}
    /\ lifetime' = lifetime

\* C24: a call of updateOrder that fails leaves the row and the balance as
\* they were and does not stop the persister: every completion the persister
\* takes from queueOut, before or after a failed one, is either applied (the
\* row gets its status and accrual, the owner's balance the accrual) or is
\* itself a failed call.
PersisterGoesOn ==
    [][\A w \in Workers :
        /\ (\E exec \in BOOLEAN : updateOrderFails(w, exec)) => UNCHANGED store
        /\ Consumed(w) =>
              \/ \E exec \in BOOLEAN : updateOrderFails(w, exec)
              \/ /\ orders' = UpdOrder(orders, wout[w].OrderNumber, wout[w].OrderStatus, wout[w].Accrual)
                 /\ balance' = UpdBalance(balance, wout[w].UserID, wout[w].Accrual)
                 /\ ppc' = "range"]_vars

\* a 200 whose body says the order is finished
TerminalAnswer(resp) == resp.code = 200 /\ resp.parses /\ resp.status \in {"PROCESSED", "INVALID"}

\* a failed poll of a record whose retry budget is spent
AtLimit(rec, resp) == PollKind(resp) = "fail" /\ Abandon(rec)

\* C25: a poll answered 200 with PROCESSED or INVALID never puts the record
\* back: the worker keeps nothing and there is one WorkItem less.  Every other
\* answer, unless it is a failure with the retry budget spent, leaves the
\* worker with exactly the one record of that order to put back, at once or
\* after its completion has been taken.
RePushed ==
    [][\A w \in Workers :
        /\ \A resp \in Responses : Poll(w, resp) =>
              IF TerminalAnswer(resp)
              THEN wpc'[w] = "sendOut" /\ wrec'[w] = NoEntry /\ Items' = Items - 1
              ELSE AtLimit(wrec[w], resp)
                   \/ /\ wpc'[w] \in {"sendIn", "sendOutIn"}
                      /\ wrec'[w].OrderNumber = wrec[w].OrderNumber
                      /\ Items' = Items
        /\ wpc[w] = "sendOutIn" /\ Consumed(w) =>
              /\ wpc'[w] = "sendIn"
              /\ wrec'[w].OrderNumber = wrec[w].OrderNumber
              /\ Items' = Items]_vars

\* the order was answered PROCESSED or INVALID and no WorkItem is left
Finished ==
    /\ Items = 0
    /\ \E w \in Workers : wpc[w] = "sendOut" /\ wout[w].OrderStatus \in Terminal
    /\ lifetime = 0

\* C26: the record a worker puts back after a completion that is not final
\* carries the status of that completion, and a poll answered with the status
\* the row already has emits no completion.
StatusCached ==
    [][\A w \in Workers :
        /\ wpc[w] = "sendOutIn" /\ Consumed(w) =>
              wrec'[w].OrderStatus = wout[w].OrderStatus
        /\ \A resp \in Parsed :
              /\ Poll(w, resp)
              /\ \E r \in orders : /\ r.OrderNumber = wrec[w].OrderNumber
                                    /\ r.Status = statusMap(resp.status)
              => wpc'[w] = "sendIn" /\ wout'[w] = NoEntry]_vars

\* C27: a poll answered 429 puts the record back with RetryAfter set to the
\* seconds of the Retry-After header and LastChecked to now, every other
\* field as it was (RetryCount among them); nothing is sent to queueOut and
\* neither the count of failed polls nor the abandoned orders change.
Delayed ==
    [][\A w \in Workers, k \in {0, RetrySeconds} :
        Poll(w, TooMany(k)) =>
            /\ wpc'[w] = "sendIn"
            /\ wout'[w] = NoEntry
            /\ wrec'[w] = [wrec[w] EXCEPT !.RetryAfter = k, !.Since = 0]
            /\ wrec'[w].RetryCount = wrec[w].RetryCount
            /\ consecFail' = consecFail
            /\ gaveUp' = gaveUp]_vars

\* a record that failed once and was then answered 429 is on its way back
DelayedOnce ==
    \E w \in Workers :
        /\ wpc[w] = "sendIn"
        /\ wrec[w].RetryAfter = RetrySeconds /\ wrec[w].Since = 0
        /\ wrec[w].RetryCount = 1

\* C28: a poll that fails (transport error, or a status other than 200 and
\* 429) with the retry budget not spent puts the record back with RetryCount
\* one higher, LastChecked now and RetryAfter 0, its status as it was.
FailureRetried ==
    [][\A w \in Workers, c \in {0, 500, 400, 422} :
        Poll(w, Fail(c)) /\ ~Abandon(wrec[w]) =>
            /\ wpc'[w] = "sendIn"
            /\ wrec'[w] = [wrec[w] EXCEPT !.RetryCount = @ + 1, !.Since = 0, !.RetryAfter = 0]]_vars

\* C29: an answer 200 whose body does not parse is handled as a transport
\* error is: the worker goes to the same place with the same record and the
\* same completion, the give-up at the retry limit included.
UnparsedAsFailed ==
    \A w \in Workers :
        wpc[w] = "hold" => processAsync(wrec[w], BadBody) = processAsync(wrec[w], Fail(0))

\* C30: an order answered 400 or 422 is not polled again: the worker does not
\* put its record back.
ClientErrorFinal ==
    [][\A w \in Workers, c \in {400, 422} :
        Poll(w, Fail(c)) => wpc'[w] \notin {"sendIn", "sendOutIn"} /\ wrec'[w] = NoEntry]_vars

\* C31: the recovery scan makes one WorkItem for every row of orders whose
\* status is neither PROCESSED nor INVALID and none for the others, the
\* PROCESSED rows of withdrawals among them; each carries the row's user,
\* number and status, RetryCount 0, the zero LastChecked and RetryAfter 0, and
\* a worker that receives it from recovery polls it without waiting.
RecoverySeeds ==
    [][/\ RecoveryScan =>
            /\ recStalled' =
                  {[UserID |-> r.UserID, OrderNumber |-> r.OrderNumber,
                    OrderStatus |-> r.Status, RetryCount |-> 0, Accrual |-> 0,
                    Since |-> Horizon, RetryAfter |-> 0]
                      : r \in {q \in orders : q.Status \notin {"PROCESSED", "INVALID"}}}
            /\ Cardinality(recStalled') =
                  Cardinality({q \in orders : q.Status \notin {"PROCESSED", "INVALID"}})
            /\ \A q \in withdrawals, e \in recStalled' : e.OrderNumber # q.OrderNumber
       /\ \A w \in Workers, e \in recStalled : RecvFromRecovery(w, e) =>
            /\ wrec'[w] = e
            /\ ~(e.RetryAfter > 0 /\ e.Since < e.RetryAfter)
            /\ ~(e.Since < MinSpacing)
            /\ wpc'[w] = "hold"]_vars

\* after a restart recovery found an unfinished order beside a finished one
\* and the row of a withdrawal, and a worker has taken its WorkItem
Seeded ==
    /\ lifetime = 1
    /\ recPc = "send"
    /\ withdrawals # {}
    /\ \E r \in orders : r.Status = "PROCESSED" /\ r.Accrual > 0
    /\ \E w \in Workers : wpc[w] = "hold" /\ wrec[w].OrderStatus = "NEW"
                               /\ wrec[w].Since = Horizon
    /\ recStalled = {} /\ hsend = {}

\* C32: recovery has scanned the rows and handed every WorkItem it made to the
\* pool before the first upload is processed: no AddNewOrder runs while the
\* scan is still to come or an entry of it is still to be sent.
RecoveryFirst ==
    [][\A u \in Users, o \in OrderNumbers :
        AddNewOrder(u, o) => recPc = "send" /\ recStalled = {}]_vars

\* C33: the amount of an existing row of balance changes only in a step of
\* updateOrder, by the accrual of the completion and for its user, or in a
\* step of AddNewWithdrawal that returns nil, by the sum withdrawn and for
\* the user withdrawing; registrations, logins, uploads, the funds check,
\* polls, recovery and failed calls leave every existing amount as it was,
\* and no row of balance disappears.
BalanceFrame ==
    [][\A u \in DOMAIN balance :
        /\ u \in DOMAIN balance'
        /\ balance'[u] # balance[u] =>
              \/ \E w \in Workers : /\ updateOrder(w)
                                     /\ wout[w].UserID = u
                                     /\ balance'[u] = balance[u] + wout[w].Accrual
              \/ \E r \in wreq : /\ AddNewWithdrawal(r)
                                  /\ reply'.res = "ok"
                                  /\ r.UserID = u
                                  /\ balance'[u] = balance[u] - r.Amount]_vars

\* the first user was credited and has withdrawn, the second user registered
\* in between and has logged in
Framed ==
    /\ "u2" \in DOMAIN balance
    /\ balance["u2"] = 0
    /\ withdrawals # {}
    /\ \E r \in orders : r.OrderNumber = 18 /\ r.Accrual > 0
    /\ recPc = "send"
    /\ reply.op = "LoginUser" /\ reply.res = "ok" /\ reply.user = "u2"

\* C34: the database is closed only when the broker has closed both queues
\* and every worker has returned, and the persister is handed no completion
\* once the database is closed.
StoreClosedLast ==
    [][/\ CloseDB => bpc = "stopped" /\ \A w \in Workers : wpc[w] = "done"
       /\ \A w \in Workers : Persist(w) => ~DBClosed]_vars

\* C35: a worker that holds a record with RetryAfter above 0 and less than
\* RetryAfter since LastChecked makes no GetAccrual call for it; its next step
\* offers the record on queueIn with every field as it was, sends nothing to
\* queueOut and changes no table.
BackoffKeeps ==
    [][\A w \in Workers :
        /\ wpc[w] = "hold"
        /\ wrec[w].RetryAfter > 0 /\ wrec[w].Since < wrec[w].RetryAfter
        => /\ \A resp \in Responses : ~Poll(w, resp)
           /\ wpc'[w] # "hold" /\ lifetime' = lifetime =>
                 /\ wpc'[w] = "sendIn"
                 /\ wrec'[w] = wrec[w]
                 /\ wout' = wout /\ wout[w] = NoEntry
                 /\ sincePoll' = sincePoll
                 /\ UNCHANGED store]_vars

\* a record is on its way back to queueIn five seconds or more after the 429
\* that delayed it, its Retry-After not yet over, the other worker waiting
PutBack ==
    \E w, v \in Workers :
        /\ w # v
        /\ wpc[w] = "sendIn" /\ wpc[v] = "recv"
        /\ wrec[w].RetryAfter = RetrySeconds
        /\ wrec[w].Since >= TickStep /\ wrec[w].Since < RetrySeconds
        /\ retryLeft[wrec[w].OrderNumber] > 0

\* C36: Storage.mu is never left locked by a call that has returned: whatever
\* the calls of the store answered, the mutex is free or held by a call that
\* is still running and will unlock it, so that a later call can lock it.
MutexReleased == mu # Free => mu.by = "AddNewUser" /\ ~mu.blocked

\* C37: with no cancellation, a worker that offers its record on queueIn is
\* in the end relieved of it and goes back to receiving, however many orders
\* are in the pool.
RePushCompletes ==
    \A w \in Workers : (wpc[w] = "sendIn") ~> (wpc[w] = "recv")

\* the WorkItems of order o: those offered by handlers and by recovery and
\* those workers hold
ItemsOf(o) ==
    Cardinality({e \in hsend : e.OrderNumber = o})
        + Cardinality({e \in recStalled : e.OrderNumber = o})
        + Cardinality({w \in Workers : wrec[w].OrderNumber = o})

\* C38: in every reachable state there is at most one WorkItem of each order
\* number, counting those offered on queueIn and those workers hold, however
\* the recovery scan and the uploads interleave.
OneItemPerOrder == \A o \in OrderNumbers : ItemsOf(o) <= 1

\* C39: an upload that Storage.AddNewOrder answers with an error (a timeout
\* or a failure of the store) leaves no row behind: every step of an upload
\* that adds a row to orders also offers the WorkItem of that order on
\* queueIn, and a step that returns an error adds no row.
NoRowOnError ==
    [][\A u \in Users, o \in OrderNumbers :
        AddNewOrder(u, o) \/ AddNewOrderTimeout(u, o) \/ OrderPrepareExpires(u, o) =>
            /\ orders' # orders => \E e \in hsend' \ hsend : e.OrderNumber = o
            /\ reply' # reply /\ reply'.res # "ok" => orders' = orders]_vars
====
